---- MODULE Spec2Model ----
(***************************************************************************)
(* A state-machine model of codmon2slack.                                  *)
(*                                                                         *)
(*   codmon_archiver.py  main / process_service / process_contact_book /   *)
(*                       download_file: the archive walk over the vendor's *)
(*                       newest-first, paginated timeline, persisting each *)
(*                       record under its own directory with a done marker.*)
(*   main.py             process_timeline / fetch_seen_ids_from_slack: the *)
(*                       chat relay with its history-scan deduplication.   *)
(*                                                                         *)
(* The archiver is single-threaded; one action is one step of the code     *)
(* between two points at which the process can be killed.                  *)
(***************************************************************************)
EXTENDS Integers, Sequences, FiniteSets, TLC

(***************************************************************************)
(* Bounds of the model and constants of the program.                       *)
(***************************************************************************)
\* safety ceiling on the page number.  codmon_archiver.py line 429 sets 3000;
\* the code reads it only in the comparison page > MAX_PAGES, and the model
\* scales it down so that a walk can reach it
MAX_PAGES == 4
\* runs of the archiver process that are explored
MaxRuns == 2
\* records the vendor publishes between runs
MaxNew == 2
\* records in the first facility's timeline at the start
InitialRecords == 3
\* the vendor's page size
PageSize == 2
\* most attachments on one record
MaxAtt == 2
\* messages the chat history call returns.  main.py line 70 asks for 100; the
\* code uses the number nowhere else, and the model scales it down so that a
\* message can leave the window
HISTORY_LIMIT == 2
\* newest messages of the channel that are kept in the state
MaxChannel == 3
\* runs of the relay process that are explored
MaxRelayRuns == 2
\* photos of the relay's first activity record
MaxPhotos == 2
\* pages of the relay's announcement document
PdfPages == 3

Services == {1, 2}
NumServices == Cardinality(Services)

(***************************************************************************)
(* Vendor data.  Record ids are unique across the vendor system; the n-th  *)
(* record ever published by facility s has id Id(s, n).  A timeline is     *)
(* listed newest-first, so a facility with c records lists                 *)
(* Id(s, c), Id(s, c-1), ..., Id(s, 1).                                    *)
(***************************************************************************)
Id(s, n) == (n - 1) * NumServices + s
ServiceOf(r) == ((r - 1) % NumServices) + 1
SeqNo(r) == ((r - 1) \div NumServices) + 1

\* attachments (file_url and photos) of a record, in the order the code
\* visits them; the first facility's second record carries MaxAtt, the
\* others none
NumAtt(r) == IF r > 0 /\ ServiceOf(r) = 1 /\ SeqNo(r) = 2 THEN MaxAtt ELSE 0

\* facilities with a linked child (member_mapping) and so a contact book
HasMember(s) == s = 2
\* the contact-book entry of a facility, kept under its own directory name
ContactId(s) == 0 - s

Min(a, b) == IF a < b THEN a ELSE b

VARIABLES
    \* ---- vendor and network (environment)
    count,          \* count[s]: records in facility s's timeline
    net,            \* outcome of downloading an attachment, once decided
    \* ---- archive tree on disk
    dirs,           \* entry directories that exist
    infos,          \* entries holding info.json
    dones,          \* entries holding the done marker
    files,          \* files[<<r, k>>]: size class of attachment k of r (0: zero bytes)
    \* ---- the running process
    pc,             \* position of the process
    args,           \* [full_scan, force, no_assets]
    svc,            \* facility of main's loop
    page,           \* process_service: page
    items,          \* process_service: items of the current page
    idx,            \* position of the for loop in items
    att,            \* next attachment of the current item
    seen_ids_in_session,
    new_ids_count,
    \* ---- observations of the run (history)
    runs,           \* processes started so far
    news,           \* records published so far
    exit,           \* how the last walk ended
    exits,          \* how the walks of this run ended, in order
    requests,       \* timeline page requests of this walk
    requested,      \* attachments this run sent an HTTP request for
    clean,          \* no page fetch failed or went wrong in this run
    startDirs,      \* dirs when the run started
    startDones,     \* dones when the run started
    written,        \* entries this run wrote to
    attempted,      \* attachments this run called download_file for
    failed,         \* attachments whose download failed in this run
    metDone,        \* the walk met a record already marked done
    dupAt,          \* the request that was answered with the page before again (0: none)
    failedAt,       \* the request of this walk whose page fetch failed (0: none)
    treeAtFail,     \* the archive tree when that fetch failed
    dl,             \* the last call of download_file, while its record is being handled
    raisedAt,       \* the record at which an exception left process_service (0: none)
    received,       \* the items of the pages this walk received, in order
    processed,      \* the items this walk handled to the end, in order
    rewritten,      \* entries whose existing info.json this walk wrote again
    everAttempted,  \* attachments any run called download_file for
    bareDones,      \* entries whose done marker a no_assets run wrote
    last,           \* the previous complete run: its args and resulting tree
    envChanged,     \* vendor data or outcomes changed since that run
    \* ---- the chat relay (main.py)
    feed,           \* feed[s]: what get_timeline returns for facility s, newest first
    channel,        \* the chat channel's messages, newest first
    rpc,            \* position of the relay process
    rsvc,           \* facility of the relay's loop
    timeline,       \* process_timeline: items
    seen_ids,       \* process_timeline: ids read from the chat history
    pos,            \* position of the loop in reversed(items)
    relayRuns,      \* relay processes started so far
    posts,          \* outbound chat calls of this process_timeline call, in order
    scannedTokens,  \* ids in an (ID: n) token anywhere in the messages it scanned
    everRelayed,    \* ids for which a message carrying the id was ever posted
    handled,        \* records of this process_timeline call that were not skipped, in order
    relayedAtScan,  \* everRelayed when the history was read
    relayClean,     \* every download and chat call of this process_timeline call succeeded
    reads,          \* history reads of this relay run
    seenAtScan,     \* what the history read of this process_timeline call returned
    partial,        \* activities whose text was posted while a photo was left out
    ownAtScan,      \* those of them whose text message this call's history read held
    \* ---- the date key of one timeline item (process_service, lines 463-489)
    item,           \* item[f]: the item's f-th date field as characters (<<>>: absent)
    given,          \* how the item's date fields were written
    dateKey,        \* the (year, month) key derived from the item
    dpc,            \* "off", "input" or "keyed"
    \* ---- the contact-book windows (process_contact_book, lines 262-302, 392-394)
    today,          \* datetime.date.today()
    bookArgs,       \* args.full_scan, args.since, args.until
    start_date,     \* first day of the target period
    end_date,       \* last day of the target period
    current_start,  \* first day of the next window
    queried,        \* the windows asked of the vendor so far, in order
    bpc             \* "off", "args", "loop" or "done"

envVars == <<count, net>>
fsVars == <<dirs, infos, dones, files>>
procVars == <<pc, args, svc, page, items, idx, att, seen_ids_in_session, new_ids_count>>
walkHist == <<exit, exits, requests, metDone, dupAt, failedAt, treeAtFail>>
runHist == <<requested, clean, startDirs, startDones, written, attempted, failed>>
allHist == <<everAttempted, bareDones, last, envChanged, dl, raisedAt>>
scanHist == <<received, processed, rewritten>>
relayHist == <<handled, relayedAtScan, relayClean, reads, seenAtScan, partial, ownAtScan>>
relayVars == <<feed, channel, rpc, rsvc, timeline, seen_ids, pos, relayRuns,
               posts, scannedTokens, everRelayed, relayHist>>
dateVars == <<item, given, dateKey, dpc>>
bookVars == <<today, bookArgs, start_date, end_date, current_start, queried, bpc>>
vars == <<envVars, fsVars, procVars, walkHist, runHist, allHist, scanHist, runs, news,
          relayVars, dateVars, bookVars>>

Outcomes == {"ok", "empty", "fail"}
Modes == [full_scan : BOOLEAN, force : BOOLEAN, no_assets : BOOLEAN]
NoArgs == [full_scan |-> FALSE, force |-> FALSE, no_assets |-> FALSE]

Tree == <<dirs, infos, dones, files>>

\* no call of download_file to speak of
NoCall == [valid |-> FALSE, key |-> <<0, 0>>, had |-> 0 - 1, force |-> FALSE,
           req |-> FALSE, o |-> "none"]

\* the vendor's honest page p of facility s (get_timeline_page)
Page(s, p) ==
    LET first == (p - 1) * PageSize + 1
        lastPos == Min(p * PageSize, count[s])
    IN  [j \in 1..(IF lastPos >= first THEN lastPos - first + 1 ELSE 0) |->
            Id(s, count[s] - (first + j - 1) + 1)]

\* position of record r in its facility's newest-first listing
PosOf(r) == count[ServiceOf(r)] - SeqNo(r) + 1
Listed(r) == r > 0 /\ SeqNo(r) <= count[ServiceOf(r)]

cur == items[idx]

\* the state before the first run: an empty archive and a vendor with c
\* records in the first facility's timeline
InitArchive(c, r, n) ==
    /\ count = [s \in Services |-> IF s = 1 THEN c ELSE 0]
    /\ net = <<>>
    /\ dirs = {} /\ infos = {} /\ dones = {} /\ files = <<>>
    /\ pc = "idle" /\ args = NoArgs /\ svc = 0 /\ page = 0
    /\ items = <<>> /\ idx = 0 /\ att = 0
    /\ seen_ids_in_session = {} /\ new_ids_count = 0
    /\ runs = r /\ news = n
    /\ exit = "none" /\ requests = 0 /\ exits = <<>> /\ requested = {} /\ clean = TRUE
    /\ startDirs = {} /\ startDones = {} /\ written = {}
    /\ attempted = {} /\ failed = {} /\ metDone = FALSE
    /\ dupAt = 0 /\ failedAt = 0 /\ treeAtFail = <<>>
    /\ dl = NoCall /\ raisedAt = 0
    /\ received = <<>> /\ processed = <<>> /\ rewritten = {}
    /\ everAttempted = {} /\ bareDones = {}
    /\ last = [valid |-> FALSE, args |-> NoArgs, tree |-> <<>>]
    /\ envChanged = FALSE

\* the relay before its first run, the vendor's timelines being f
InitRelay(f) ==
    /\ feed = f
    /\ channel = <<>>
    /\ rpc = "idle" /\ rsvc = 0 /\ timeline = <<>> /\ seen_ids = {} /\ pos = 0
    /\ relayRuns = 0
    /\ posts = <<>> /\ scannedTokens = {} /\ everRelayed = {}
    /\ handled = <<>> /\ relayedAtScan = {} /\ relayClean = TRUE
    /\ reads = 0 /\ seenAtScan = {}
    /\ partial = {} /\ ownAtScan = {}

\* the five date fields in the order of lines 464-473: display_date,
\* start_date, delivery_start_datetime, update_datetime, confirm_datetime
DateFields == 1..5
NoItem == [f \in DateFields |-> <<>>]
NoGiven == [field |-> 0, form |-> "none", y |-> 0, m |-> 0, d |-> 0, decoy |-> FALSE]
NoKey == [known |-> FALSE, year |-> 0, month |-> 0]

\* a date is <<year, month, day>>; NoDate stands for an option not given
NoDate == <<0, 0, 0>>
NoBookArgs == [full_scan |-> FALSE, since |-> NoDate, until |-> NoDate]

\* no contact book is read
BookOff ==
    /\ today = NoDate /\ bookArgs = NoBookArgs
    /\ start_date = NoDate /\ end_date = NoDate /\ current_start = NoDate
    /\ queried = <<>> /\ bpc = "off"

\* no item is under study
DateOff == item = NoItem /\ given = NoGiven /\ dateKey = NoKey /\ dpc = "off"

\* the archiver alone: the relay never runs
InitWith(c, r, n) ==
    /\ InitArchive(c, r, n)
    /\ InitRelay([s \in Services |-> <<>>])
    /\ DateOff
    /\ BookOff

\* the general specification leaves room for one published record
Init == InitWith(InitialRecords, 0, MaxNew - 1)

InitHonest == InitWith(InitialRecords, 0, 0)

(***************************************************************************)
(* main and process_service: start of a run and of a facility's walk.      *)
(***************************************************************************)
\* process_service(service): the locals it sets before its loops
BeginWalk(s) ==
    /\ svc' = s
    /\ pc' = IF HasMember(s) THEN "contact" ELSE "fetch"
    /\ page' = 1
    /\ items' = <<>> /\ idx' = 0 /\ att' = 0
    /\ seen_ids_in_session' = {} /\ new_ids_count' = 0
    /\ exit' = "none" /\ requests' = 0 /\ metDone' = FALSE /\ dupAt' = 0
    /\ failedAt' = 0 /\ treeAtFail' = <<>>
    /\ received' = <<>> /\ processed' = <<>> /\ rewritten' = {}

\* the process starts with the options a of its command line
Start(a) ==
    /\ pc = "idle" /\ runs < MaxRuns
    /\ runs' = runs + 1
    /\ args' = a
    /\ BeginWalk(1)
    /\ exits' = <<>> /\ requested' = {} /\ clean' = TRUE
    /\ startDirs' = dirs /\ startDones' = dones
    /\ written' = {} /\ attempted' = {} /\ failed' = {}
    /\ UNCHANGED <<envVars, fsVars, allHist, news>>
    /\ UNCHANGED relayVars
    /\ UNCHANGED dateVars
    /\ UNCHANGED bookVars

\* a walk ends (return or break) and control is back in main's loop
Leave(reason) ==
    /\ pc' = "exited"
    /\ exit' = reason
    /\ exits' = Append(exits, reason)
    /\ page' = 0 /\ items' = <<>> /\ idx' = 0 /\ att' = 0
    /\ seen_ids_in_session' = {} /\ new_ids_count' = 0

(***************************************************************************)
(* process_contact_book: one entry from the facility (get_comments).       *)
(***************************************************************************)
\* faulty variant: the walk never stops at an archived entry
StopsAtExisting_Never == FALSE

\* the policy shared by lines 329, 378 and 500: stop (or skip) at an entry
\* that is already archived
\* faulty variant: a full scan stops at an archived entry as a routine run does
StopsAtExisting_InFullScan == ~args.force

\* line 500: the walk stops at an archived entry
StopsAtExisting == ~args.full_scan /\ ~args.force
IsExisting(r) == r \in dirs /\ r \in dones

ContactItem ==
    /\ pc = "contact"
    /\ pc' = IF IsExisting(ContactId(svc)) /\ StopsAtExisting THEN "fetch" ELSE "cb_mkdir"
    /\ UNCHANGED <<envVars, fsVars, args, svc, page, items, idx, att,
                   seen_ids_in_session, new_ids_count, walkHist, runHist,
                   allHist, runs, news>>
    /\ UNCHANGED scanHist
    /\ UNCHANGED relayVars
    /\ UNCHANGED dateVars
    /\ UNCHANGED bookVars

ContactMkdir ==
    /\ pc = "cb_mkdir"
    /\ dirs' = dirs \cup {ContactId(svc)}
    /\ written' = written \cup {ContactId(svc)}
    /\ pc' = "cb_info"
    /\ UNCHANGED <<envVars, infos, dones, files, args, svc, page, items, idx, att,
                   seen_ids_in_session, new_ids_count, walkHist, requested, clean,
                   startDirs, startDones, attempted, failed, allHist, runs, news>>
    /\ UNCHANGED scanHist
    /\ UNCHANGED relayVars
    /\ UNCHANGED dateVars
    /\ UNCHANGED bookVars

ContactInfo ==
    /\ pc = "cb_info"
    /\ infos' = infos \cup {ContactId(svc)}
    /\ pc' = "cb_done"
    /\ UNCHANGED <<envVars, dirs, dones, files, args, svc, page, items, idx, att,
                   seen_ids_in_session, new_ids_count, walkHist, runHist,
                   allHist, runs, news>>
    /\ UNCHANGED scanHist
    /\ UNCHANGED relayVars
    /\ UNCHANGED dateVars
    /\ UNCHANGED bookVars

ContactDone ==
    /\ pc = "cb_done"
    /\ dones' = dones \cup {ContactId(svc)}
    /\ pc' = "fetch"
    /\ UNCHANGED <<envVars, dirs, infos, files, args, svc, page, items, idx, att,
                   seen_ids_in_session, new_ids_count, walkHist, runHist,
                   allHist, runs, news>>
    /\ UNCHANGED scanHist
    /\ UNCHANGED relayVars
    /\ UNCHANGED dateVars
    /\ UNCHANGED bookVars

(***************************************************************************)
(* process_service: the while loop over pages.                             *)
(***************************************************************************)
\* faulty variant: the ceiling is never checked
OverCeiling_Never == FALSE

\* line 433
OverCeiling == page > MAX_PAGES
NoData(resp) == resp = <<>>

\* lines 438-453 for the response resp (None and an empty list are both <<>>)
Receive(resp) ==
    /\ requests' = requests + 1
    /\ IF NoData(resp)
       THEN /\ Leave("nodata")
            /\ UNCHANGED <<dupAt, received>>
       ELSE /\ items' = resp
            /\ received' = received \o resp
            /\ idx' = 1
            /\ new_ids_count' = 0
            /\ dupAt' = IF dupAt = 0 /\ resp = items THEN requests + 1 ELSE dupAt
            /\ pc' = "item"
            /\ UNCHANGED <<exit, exits, page, att, seen_ids_in_session>>

\* the loop head with the vendor answering the page that was asked for
GetTimelinePage ==
    /\ pc = "fetch"
    /\ IF OverCeiling
       THEN /\ Leave("ceiling")
            /\ UNCHANGED <<requests, dupAt, received>>
       ELSE Receive(Page(svc, page))
    /\ UNCHANGED <<failedAt, treeAtFail>>
    /\ UNCHANGED <<envVars, fsVars, args, svc, metDone, runHist, allHist, runs, news>>
    /\ UNCHANGED <<processed, rewritten>>
    /\ UNCHANGED relayVars
    /\ UNCHANGED dateVars
    /\ UNCHANGED bookVars

\* faulty variant: the page is asked for again after a failure
GetTimelinePageFails_Retries ==
    /\ pc = "fetch" /\ ~OverCeiling
    /\ requests' = requests + 1
    /\ clean' = FALSE
    /\ failedAt' = IF failedAt = 0 THEN requests + 1 ELSE failedAt
    /\ treeAtFail' = Tree
    /\ UNCHANGED <<pc, page, items, idx, att, seen_ids_in_session, new_ids_count,
                   exit, exits, dupAt>>
    /\ UNCHANGED <<envVars, fsVars, args, svc, metDone, requested, startDirs, startDones, written, attempted,
                   failed, allHist, runs, news>>
    /\ UNCHANGED scanHist
    /\ UNCHANGED relayVars
    /\ UNCHANGED dateVars
    /\ UNCHANGED bookVars

\* get_timeline_page returns None: a non-200 status or an exception
GetTimelinePageFails ==
    /\ pc = "fetch" /\ ~OverCeiling
    /\ Receive(<<>>)
    /\ clean' = FALSE
    /\ failedAt' = requests + 1
    /\ treeAtFail' = Tree
    /\ UNCHANGED <<envVars, fsVars, args, svc, metDone, requested, startDirs, startDones, written, attempted,
                   failed, allHist, runs, news>>
    /\ UNCHANGED <<processed, rewritten>>
    /\ UNCHANGED relayVars
    /\ UNCHANGED dateVars
    /\ UNCHANGED bookVars

\* the vendor answers with the content of the page before (a pagination bug)
GetTimelinePageRepeats ==
    /\ pc = "fetch" /\ ~OverCeiling
    /\ items # <<>>
    /\ Receive(items)
    /\ clean' = FALSE
    /\ UNCHANGED <<failedAt, treeAtFail>>
    /\ UNCHANGED <<envVars, fsVars, args, svc, metDone, requested, startDirs, startDones, written, attempted,
                   failed, allHist, runs, news>>
    /\ UNCHANGED <<processed, rewritten>>
    /\ UNCHANGED relayVars
    /\ UNCHANGED dateVars
    /\ UNCHANGED bookVars

\* lines 455-506: loop detection bookkeeping, the entry's directory, and the
\* resume policy
ItemBegin ==
    /\ pc = "item"
    /\ metDone' = (metDone \/ IsExisting(cur))
    /\ IF IsExisting(cur) /\ StopsAtExisting
       THEN Leave("resume")
       ELSE /\ seen_ids_in_session' = seen_ids_in_session \cup {cur}
            /\ new_ids_count' = IF cur \notin seen_ids_in_session
                                THEN new_ids_count + 1 ELSE new_ids_count
            /\ pc' = "mkdir"
            /\ UNCHANGED <<exit, exits, page, items, idx, att>>
    /\ UNCHANGED <<envVars, fsVars, args, svc,
                   requests, dupAt, failedAt, treeAtFail, runHist, allHist, runs, news>>
    /\ UNCHANGED scanHist
    /\ UNCHANGED relayVars
    /\ UNCHANGED dateVars
    /\ UNCHANGED bookVars

\* line 509
Mkdir ==
    /\ pc = "mkdir"
    /\ dirs' = dirs \cup {cur}
    /\ written' = written \cup {cur}
    /\ pc' = "info"
    /\ UNCHANGED <<envVars, infos, dones, files, args, svc, page, items, idx, att,
                   seen_ids_in_session, new_ids_count, walkHist, requested, clean,
                   startDirs, startDones, attempted, failed, allHist, runs, news>>
    /\ UNCHANGED scanHist
    /\ UNCHANGED relayVars
    /\ UNCHANGED dateVars
    /\ UNCHANGED bookVars

\* faulty variant: the done marker is written before the attachments are fetched
AfterInfo_MarkerFirst == "done"

\* where the code goes after info.json: the attachments unless --no-assets
AfterInfo == IF args.no_assets \/ NumAtt(cur) = 0 THEN "done" ELSE "assets"

\* line 512: info.json is written
WritesInfo(r) == args.force \/ r \notin infos

\* lines 512-517
WriteInfo ==
    /\ pc = "info"
    /\ infos' = IF WritesInfo(cur) THEN infos \cup {cur} ELSE infos
    /\ rewritten' = IF WritesInfo(cur) /\ cur \in infos THEN rewritten \cup {cur}
                     ELSE rewritten
    /\ att' = 1
    /\ pc' = AfterInfo
    /\ UNCHANGED <<envVars, dirs, dones, files, args, svc, page, items, idx,
                   seen_ids_in_session, new_ids_count, walkHist, runHist,
                   allHist, runs, news>>
    /\ UNCHANGED <<received, processed>>
    /\ UNCHANGED relayVars
    /\ UNCHANGED dateVars
    /\ UNCHANGED bookVars

(***************************************************************************)
(* download_file, called for the entry's attachment number att.            *)
(***************************************************************************)
\* faulty variant: an existing file is downloaded again
AlreadyDownloaded_Never(key) == FALSE

\* faulty variant: an empty file counts as downloaded
AlreadyDownloaded_AnySize(key) == ~args.force /\ key \in DOMAIN files

\* lines 228-232: the file is there and not empty, and force is off
AlreadyDownloaded(key) ==
    ~args.force /\ key \in DOMAIN files /\ files[key] > 0

\* lines 240-252: what the response does to the file
Store(key, o) ==
    CASE o = "ok" -> (key :> 1) @@ files
      [] o = "empty" -> (key :> 0) @@ files
      [] OTHER -> files

\* faulty variant: a failed download ends the handling of the page's items
AfterDownload_StopOnFailure(o) ==
    IF o = "fail" THEN "endpage"
    ELSE IF att = NumAtt(cur) THEN "done" ELSE "assets"

\* the call sites ignore download_file's result: the loop goes on
AfterDownload(o) == IF att = NumAtt(cur) THEN "done" ELSE "assets"

DownloadFile ==
    /\ pc = "assets"
    /\ LET key == <<cur, att>> IN
       /\ attempted' = attempted \cup {key}
       /\ everAttempted' = everAttempted \cup {key}
       /\ IF AlreadyDownloaded(key)
          THEN /\ pc' = AfterDownload("ok")
               /\ dl' = [valid |-> TRUE, key |-> key, had |-> files[key],
                         force |-> args.force, req |-> FALSE, o |-> "none"]
               /\ UNCHANGED <<net, files, requested, failed>>
          ELSE \E o \in (IF key \in DOMAIN net THEN {net[key]} ELSE Outcomes) :
               /\ net' = (key :> o) @@ net
               /\ requested' = requested \cup {key}
               /\ files' = Store(key, o)
               /\ failed' = IF o = "fail" THEN failed \cup {key} ELSE failed
               /\ pc' = AfterDownload(o)
               /\ dl' = [valid |-> TRUE, key |-> key,
                         had |-> IF key \in DOMAIN files THEN files[key] ELSE 0 - 1,
                         force |-> args.force, req |-> TRUE, o |-> o]
    /\ att' = att + 1
    /\ UNCHANGED <<count, dirs, infos, dones, args, svc, page, items, idx,
                   seen_ids_in_session, new_ids_count, walkHist, clean, startDirs,
                   startDones, written, bareDones, last, envChanged, raisedAt, runs, news>>
    /\ UNCHANGED scanHist
    /\ UNCHANGED relayVars
    /\ UNCHANGED dateVars
    /\ UNCHANGED bookVars

\* line 542, and the for loop's step to the next item
TouchDone ==
    /\ pc = "done"
    /\ dones' = dones \cup {cur}
    /\ bareDones' = IF args.no_assets THEN bareDones \cup {cur} ELSE bareDones
    /\ idx' = idx + 1
    /\ pc' = IF idx = Len(items) THEN "endpage" ELSE "item"
    /\ dl' = NoCall
    /\ processed' = Append(processed, cur)
    /\ UNCHANGED <<envVars, dirs, infos, files, args, svc, page, items, att,
                   seen_ids_in_session, new_ids_count, walkHist, runHist,
                   everAttempted, last, envChanged, raisedAt, runs, news>>
    /\ UNCHANGED <<received, rewritten>>
    /\ UNCHANGED relayVars
    /\ UNCHANGED dateVars
    /\ UNCHANGED bookVars

\* faulty variant: repeated pages go unnoticed
LoopDetected_Never == FALSE

\* line 549: every item of the page was seen before in this walk
LoopDetected == new_ids_count = 0 /\ Len(items) > 0

\* lines 547-554
EndPage ==
    /\ pc = "endpage"
    /\ IF LoopDetected
       THEN Leave("loop")
       ELSE /\ pc' = "fetch" /\ page' = page + 1
            /\ UNCHANGED <<exit, exits, items, idx, att, seen_ids_in_session, new_ids_count>>
    /\ UNCHANGED <<envVars, fsVars, args, svc, requests, metDone, dupAt, failedAt, treeAtFail,
                   runHist, allHist, runs, news>>
    /\ UNCHANGED scanHist
    /\ UNCHANGED relayVars
    /\ UNCHANGED dateVars
    /\ UNCHANGED bookVars

(***************************************************************************)
(* main's loop over the facilities, and the end of the process.            *)
(***************************************************************************)
NextService ==
    /\ pc = "exited" /\ svc < NumServices
    /\ BeginWalk(svc + 1)
    /\ exits' = exits
    /\ UNCHANGED <<envVars, fsVars, args, runHist, allHist, runs, news>>
    /\ UNCHANGED relayVars
    /\ UNCHANGED dateVars
    /\ UNCHANGED bookVars

Finish ==
    /\ pc = "exited" /\ svc = NumServices
    /\ pc' = "finished"
    /\ UNCHANGED <<envVars, fsVars, args, svc, page, items, idx, att,
                   seen_ids_in_session, new_ids_count, walkHist, runHist,
                   allHist, runs, news>>
    /\ UNCHANGED scanHist
    /\ UNCHANGED relayVars
    /\ UNCHANGED dateVars
    /\ UNCHANGED bookVars

\* the memory of the process is gone
Forget ==
    /\ pc' = "idle" /\ args' = NoArgs /\ svc' = 0 /\ page' = 0
    /\ items' = <<>> /\ idx' = 0 /\ att' = 0
    /\ seen_ids_in_session' = {} /\ new_ids_count' = 0
    /\ requests' = 0 /\ metDone' = FALSE /\ dupAt' = 0
    /\ failedAt' = 0 /\ treeAtFail' = <<>> /\ dl' = NoCall
    /\ received' = <<>> /\ processed' = <<>> /\ rewritten' = {}
    /\ exits' = <<>> /\ requested' = {} /\ clean' = TRUE
    /\ startDirs' = {} /\ startDones' = {}
    /\ written' = {} /\ attempted' = {} /\ failed' = {}

\* the process ends after main's loop
Exit ==
    /\ pc = "finished"
    /\ Forget
    /\ exit' = "none"
    /\ last' = [valid |-> clean, args |-> args, tree |-> Tree]
    /\ envChanged' = FALSE
    /\ raisedAt' = 0
    /\ UNCHANGED <<envVars, fsVars, everAttempted, bareDones, runs, news>>
    /\ UNCHANGED relayVars
    /\ UNCHANGED dateVars
    /\ UNCHANGED bookVars

\* the process is killed from outside, between any two steps
Interrupt ==
    /\ pc \notin {"idle", "finished"}
    /\ Forget
    /\ exit' = "killed"
    /\ last' = [valid |-> FALSE, args |-> NoArgs, tree |-> <<>>]
    /\ envChanged' = FALSE
    /\ raisedAt' = 0
    /\ UNCHANGED <<envVars, fsVars, everAttempted, bareDones, runs, news>>
    /\ UNCHANGED relayVars
    /\ UNCHANGED dateVars
    /\ UNCHANGED bookVars

\* an exception leaves process_service and main, which catch none: a missing
\* id (line 456), a failed mkdir or file write (lines 509-514, 542), a photo
\* without url or id (lines 530-531); the process ends with a traceback
Raises ==
    /\ pc \in {"item", "mkdir", "info", "assets", "done"}
    /\ raisedAt' = cur
    /\ Forget
    /\ exit' = "raised"
    /\ last' = [valid |-> FALSE, args |-> NoArgs, tree |-> <<>>]
    /\ envChanged' = FALSE
    /\ UNCHANGED <<envVars, fsVars, everAttempted, bareDones, runs, news>>
    /\ UNCHANGED relayVars
    /\ UNCHANGED dateVars
    /\ UNCHANGED bookVars

(***************************************************************************)
(* The environment between two runs.                                       *)
(***************************************************************************)
\* the facility publishes a record, listed first from now on
NewRecord(s) ==
    /\ pc = "idle" /\ news < MaxNew
    /\ news' = news + 1
    /\ count' = [count EXCEPT ![s] = @ + 1]
    /\ envChanged' = TRUE
    /\ UNCHANGED <<net, fsVars, procVars, walkHist, runHist,
                   everAttempted, bareDones, last, dl, raisedAt, runs>>
    /\ UNCHANGED scanHist
    /\ UNCHANGED relayVars
    /\ UNCHANGED dateVars
    /\ UNCHANGED bookVars

\* downloads that failed may succeed at the next run, and the reverse
NetChange ==
    /\ pc = "idle" /\ net # <<>>
    /\ net' = <<>>
    /\ envChanged' = TRUE
    /\ UNCHANGED <<count, fsVars, procVars, walkHist, runHist,
                   everAttempted, bareDones, last, dl, raisedAt, runs, news>>
    /\ UNCHANGED scanHist
    /\ UNCHANGED relayVars
    /\ UNCHANGED dateVars
    /\ UNCHANGED bookVars

(***************************************************************************)
(* The chat relay (main.py).  A record of the relay's feed is an id; what  *)
(* the vendor says about it is given by Kind, Photos, HasFile, Pages and   *)
(* Quoted.  A text is modelled by the sequence of the ids in its           *)
(* (ID: <digits>) tokens, in the order they appear.                        *)
(***************************************************************************)
Kind(i) ==
    CASE i \in {1, 2, 6} -> "activities"
      [] i \in {3, 5} -> "topics"
      [] OTHER -> "responses"
Photos(i) == IF i = 1 THEN MaxPhotos ELSE IF i = 6 THEN 1 ELSE 0
\* the caption of the k-th photo: the first has one, the others none
Caption(i, k) == IF k = 1 THEN "caption" ELSE ""
\* file_url is present (a PDF)
HasFile(i) == i = 3
\* faulty variant: the document is not expanded into page images
Pages_None(i) == 0

\* lines 484-494: the page images of the PDF
Pages(i) == IF HasFile(i) THEN PdfPages ELSE 0
\* the tokens within the record's own title and body: the second activity
\* quotes the tag of the first
Quoted(i) == IF i \in {2, 6} THEN <<1>> ELSE <<>>

\* timelines the vendor may return for the first and for the other facilities
FeedChoices == {<<>>, <<1>>, <<2, 1>>, <<3, 2, 1>>, <<4, 3>>, <<6>>}
OtherFeedChoices == {<<>>, <<5>>}
\* texts other members of the channel write
ChatterTexts == {<<>>, <<3>>}

archiveVars == <<envVars, fsVars, procVars, walkHist, runHist, allHist, scanHist, runs, news>>

InitRelayOnly ==
    /\ InitArchive(0, 0, 0)
    /\ DateOff
    /\ BookOff
    /\ \E f1 \in FeedChoices : \E f2 \in OtherFeedChoices :
          InitRelay([s \in Services |-> IF s = 1 THEN f1 ELSE f2])

\* lines 408 and 456: title and body first, the record's own tag last
MainMessage(i) == Quoted(i) \o <<i>>

\* pattern.search: the first token of the text, if any
FirstToken(text) == IF text = <<>> THEN {} ELSE {text[1]}
TokensOf(text) == {text[k] : k \in 1..Len(text)}

\* lines 79-93: what one message adds to seen_ids
SeenIn(msg) ==
    FirstToken(msg.text) \cup
    UNION {FirstToken(msg.comments[k]) : k \in 1..Len(msg.comments)}

\* every token of a message, in its text or in a file's initial comment
AllTokensIn(msg) ==
    TokensOf(msg.text) \cup
    UNION {TokensOf(msg.comments[k]) : k \in 1..Len(msg.comments)}

\* line 70: conversations_history(limit=100), newest first
Window == SubSeq(channel, 1, Min(Len(channel), HISTORY_LIMIT))

\* lines 67-96
FetchedSeenIds == UNION {SeenIn(Window[k]) : k \in 1..Len(Window)}

\* the numbers of S up to n, ascending
RECURSIVE Asc(_, _)
Asc(S, n) ==
    IF n = 0 THEN <<>>
    ELSE Asc(S, n - 1) \o (IF n \in S THEN <<n>> ELSE <<>>)

\* faulty variant: an empty caption is passed on as it is
PhotoComment_Raw(i, k) == Caption(i, k)

\* lines 414-418: the caption, or "." when there is none
PhotoComment(i, k) == IF Caption(i, k) = "" THEN "." ELSE Caption(i, k)

\* the text or initial comment a call carries: the main message with the
\* record's tag (lines 408, 456, 480), a caption, or "." (line 493)
CommentOf(i, what, n) ==
    CASE what = "photo" -> PhotoComment(i, n)
      [] what = "page" -> "."
      [] OTHER -> "message"

Call(i, what, n) == [id |-> i, what |-> what, n |-> n, comment |-> CommentOf(i, what, n)]

Calls(i, what, ns) == [k \in 1..Len(ns) |-> Call(i, what, ns[k])]

\* what can happen to the calls of one record: the download of the document,
\* the main post or upload, and the photos or pages that get through
RelayOutcomes(i) ==
    [dl : IF HasFile(i) THEN BOOLEAN ELSE {TRUE}, main : BOOLEAN,
     parts : SUBSET (1..(IF Kind(i) = "activities" THEN Photos(i) ELSE Pages(i)))]

\* lines 389-497: the chat calls that succeed for record i, in order
Emitted(i, o) ==
    IF Kind(i) = "activities"
    THEN IF o.main
         THEN <<Call(i, "text", 0)>> \o Calls(i, "photo", Asc(o.parts, Photos(i)))
         ELSE <<>>
    ELSE IF HasFile(i)
         THEN IF o.dl
              THEN (IF o.main THEN <<Call(i, "file", 0)>> ELSE <<>>)
                   \o Calls(i, "page", Asc(o.parts, Pages(i)))
              ELSE <<>>
         ELSE IF o.main THEN <<Call(i, "text", 0)>> ELSE <<>>

\* the channel message a call results in; the comment of an upload comes back
\* either as the message's text or as the file's initial comment
MessageOf(c, where) ==
    IF c.what = "text" THEN [text |-> MainMessage(c.id), comments |-> <<>>]
    ELSE IF c.what = "file"
         THEN IF where = "text"
              THEN [text |-> MainMessage(c.id), comments |-> <<>>]
              ELSE [text |-> <<>>, comments |-> <<MainMessage(c.id)>>]
         ELSE [text |-> <<>>, comments |-> <<>>]

\* only the comment of a document upload can come back in two ways
Wheres(i) == IF HasFile(i) THEN {"text", "comment"} ELSE {"text"}

Newest(msgs) == SubSeq(msgs, 1, Min(Len(msgs), MaxChannel))

\* the channel after the calls cs, the last call's message first
RECURSIVE Pushed(_, _, _)
Pushed(ch, cs, where) ==
    IF cs = <<>> THEN ch
    ELSE Pushed(Newest(<<MessageOf(Head(cs), where)>> \o ch), Tail(cs), where)

\* line 548-555: the relay process starts
RelayStart ==
    /\ rpc = "idle" /\ relayRuns < MaxRelayRuns
    /\ relayRuns' = relayRuns + 1
    /\ rsvc' = 1
    /\ rpc' = "timeline"
    /\ posts' = <<>> /\ scannedTokens' = {}
    /\ handled' = <<>> /\ relayedAtScan' = {} /\ relayClean' = TRUE
    /\ reads' = 0 /\ seenAtScan' = {} /\ ownAtScan' = {}
    /\ UNCHANGED <<feed, channel, timeline, seen_ids, pos, everRelayed, partial>>
    /\ UNCHANGED archiveVars
    /\ UNCHANGED dateVars
    /\ UNCHANGED bookVars

\* line 574 and lines 367-372: the facility's timeline arrives
GetTimeline ==
    /\ rpc = "timeline"
    /\ timeline' = feed[rsvc]
    /\ rpc' = "history"
    /\ posts' = <<>> /\ scannedTokens' = {}
    /\ handled' = <<>> /\ relayedAtScan' = {} /\ relayClean' = TRUE /\ seenAtScan' = {}
    /\ ownAtScan' = {}
    /\ UNCHANGED <<feed, channel, rsvc, seen_ids, pos, relayRuns, everRelayed, reads, partial>>
    /\ UNCHANGED archiveVars
    /\ UNCHANGED dateVars
    /\ UNCHANGED bookVars

\* get_timeline returns None and process_timeline returns at line 368
GetTimelineFails ==
    /\ rpc = "timeline"
    /\ rpc' = "next"
    /\ posts' = <<>> /\ scannedTokens' = {}
    /\ handled' = <<>> /\ relayedAtScan' = {} /\ relayClean' = TRUE /\ seenAtScan' = {}
    /\ ownAtScan' = {}
    /\ UNCHANGED <<feed, channel, rsvc, timeline, seen_ids, pos, relayRuns, everRelayed, reads,
                   partial>>
    /\ UNCHANGED archiveVars
    /\ UNCHANGED dateVars
    /\ UNCHANGED bookVars

\* line 371: fetch_seen_ids_from_slack
FetchSeenIds ==
    /\ rpc = "history"
    /\ seen_ids' = FetchedSeenIds
    /\ scannedTokens' = UNION {AllTokensIn(Window[k]) : k \in 1..Len(Window)}
    /\ pos' = 1
    /\ rpc' = "items"
    /\ reads' = reads + 1
    /\ relayedAtScan' = everRelayed
    /\ seenAtScan' = FetchedSeenIds
    /\ ownAtScan' = {i \in partial : \E k \in 1..Len(Window) :
                                        Window[k].text = MainMessage(i)}
    /\ UNCHANGED <<feed, channel, rsvc, timeline, relayRuns, posts, everRelayed,
                   handled, relayClean, partial>>
    /\ UNCHANGED archiveVars
    /\ UNCHANGED dateVars
    /\ UNCHANGED bookVars

\* lines 71-73 and 98-103: the history call fails, nothing counts as seen
FetchSeenIdsFails ==
    /\ rpc = "history"
    /\ seen_ids' = {}
    /\ scannedTokens' = {}
    /\ pos' = 1
    /\ rpc' = "items"
    /\ reads' = reads + 1
    /\ relayedAtScan' = everRelayed
    /\ seenAtScan' = {}
    /\ ownAtScan' = {}
    /\ UNCHANGED <<feed, channel, rsvc, timeline, relayRuns, posts, everRelayed,
                   handled, relayClean, partial>>
    /\ UNCHANGED archiveVars
    /\ UNCHANGED dateVars
    /\ UNCHANGED bookVars

\* faulty variant: the items are taken in the vendor's order
curItem_Forward == timeline[pos]

\* line 375: the record the loop over reversed(items) is at
curItem == timeline[Len(timeline) - pos + 1]

\* faulty variant: the relay keeps its own record of what it has relayed
Skipped_Remembering(i) ==
    i \in seen_ids \/ i \in everRelayed \/ Kind(i) = "responses"

\* lines 379-384
Skipped(i) == i \in seen_ids \/ Kind(i) = "responses"

\* faulty variant: the id is saved once the record is handled
SeenAfter_Saved(i) == seen_ids \cup {i}

\* lines 499-500: save_seen_id is commented out, the set stays as it was read
SeenAfter(i) == seen_ids

\* every download and chat call of the record succeeded
FullSuccess(i, o) ==
    /\ o.dl /\ o.main
    /\ o.parts = 1..(IF Kind(i) = "activities" THEN Photos(i) ELSE Pages(i))

\* lines 375-503: one round of the loop
RelayItem ==
    /\ rpc = "items" /\ pos <= Len(timeline)
    /\ pos' = pos + 1
    /\ IF Skipped(curItem)
       THEN UNCHANGED <<channel, posts, everRelayed, handled, relayClean, seen_ids, partial>>
       ELSE \E o \in RelayOutcomes(curItem) : \E where \in Wheres(curItem) :
               LET cs == Emitted(curItem, o)
               IN  /\ posts' = posts \o cs
                   /\ channel' = Pushed(channel, cs, where)
                   /\ everRelayed' = everRelayed \cup
                         {cs[k].id : k \in {j \in 1..Len(cs) : cs[j].what \in {"text", "file"}}}
                   /\ handled' = Append(handled, curItem)
                   /\ relayClean' = (relayClean /\ FullSuccess(curItem, o))
                   /\ seen_ids' = SeenAfter(curItem)
                   /\ partial' = IF Kind(curItem) = "activities" /\ o.main
                                     /\ o.parts # 1..Photos(curItem)
                                  THEN partial \cup {curItem} ELSE partial
    /\ UNCHANGED <<feed, rpc, rsvc, timeline, relayRuns, scannedTokens,
                   relayedAtScan, reads, seenAtScan, ownAtScan>>
    /\ UNCHANGED archiveVars
    /\ UNCHANGED dateVars
    /\ UNCHANGED bookVars

\* lines 569-577 and 584: on to the next facility, or the process ends
NextFacility ==
    /\ \/ rpc = "next"
       \/ rpc = "items" /\ pos > Len(timeline)
    /\ IF rsvc < NumServices
       THEN rsvc' = rsvc + 1 /\ rpc' = "timeline"
       ELSE rsvc' = 0 /\ rpc' = "idle"
    /\ timeline' = <<>> /\ seen_ids' = {} /\ pos' = 0
    /\ UNCHANGED <<feed, channel, relayRuns, posts, scannedTokens, everRelayed, relayHist>>
    /\ UNCHANGED archiveVars
    /\ UNCHANGED dateVars
    /\ UNCHANGED bookVars

\* another member of the channel writes a message; the relay looks at the
\* channel only when a process_timeline call begins, so the messages are
\* let in between two calls
Chatter(t) ==
    /\ rpc \in {"idle", "timeline"}
    /\ channel' = Newest(<<[text |-> t, comments |-> <<>>]>> \o channel)
    /\ UNCHANGED <<feed, rpc, rsvc, timeline, seen_ids, pos, relayRuns,
                   posts, scannedTokens, everRelayed, relayHist>>
    /\ UNCHANGED archiveVars
    /\ UNCHANGED dateVars
    /\ UNCHANGED bookVars

NextRelay ==
    \/ RelayStart
    \/ GetTimeline
    \/ GetTimelineFails
    \/ FetchSeenIds
    \/ FetchSeenIdsFails
    \/ RelayItem
    \/ NextFacility
    \/ \E t \in ChatterTexts : Chatter(t)

SpecRelay == InitRelayOnly /\ [][NextRelay]_vars

(***************************************************************************)
(* The date key of a timeline item (process_service, lines 463-489).  A    *)
(* text is a sequence of characters, and strptime is modelled by the       *)
(* regular expressions Python builds for %Y, %m and %d.                    *)
(***************************************************************************)
\* the markers for year, month and day of the format at line 480, each one
\* character of the text
Nen == "nen"
Gatsu == "gatsu"
Nichi == "nichi"

DigitSeq == <<"0", "1", "2", "3", "4", "5", "6", "7", "8", "9">>
Dig(n) == DigitSeq[n + 1]
IsDigit(c) == \E k \in 1..10 : DigitSeq[k] = c
DigitOf(c) == (CHOOSE k \in 1..10 : DigitSeq[k] = c) - 1

\* how the vendor may write the date d.m.y
Pad2(n) == <<Dig(n \div 10), Dig(n % 10)>>
Plain(n) == IF n < 10 THEN <<Dig(n)>> ELSE Pad2(n)
Pad4(y) == <<Dig(y \div 1000), Dig((y \div 100) % 10), Dig((y \div 10) % 10), Dig(y % 10)>>
ClockTime == <<"1", "8", ":", "1", "5">>
Iso(y, m, d) == Pad4(y) \o <<"-">> \o Pad2(m) \o <<"-">> \o Pad2(d)
Kanji(y, m, d) == Pad4(y) \o <<Nen>> \o Pad2(m) \o <<Gatsu>> \o Pad2(d) \o <<Nichi>>

WrittenAs(g) ==
    CASE g.form = "iso" -> Iso(g.y, g.m, g.d)
      [] g.form = "isoTime" -> Iso(g.y, g.m, g.d) \o <<" ">> \o ClockTime
      [] g.form = "isoT" -> Iso(g.y, g.m, g.d) \o <<"T">> \o ClockTime
      [] g.form = "isoShort" -> Pad4(g.y) \o <<"-">> \o Plain(g.m) \o <<"-">> \o Plain(g.d)
      [] g.form = "slash" -> Pad4(g.y) \o <<"/">> \o Pad2(g.m) \o <<"/">> \o Pad2(g.d)
      [] g.form = "kanji" -> Kanji(g.y, g.m, g.d)
      [] g.form = "kanjiShort" ->
            Pad4(g.y) \o <<Nen>> \o Plain(g.m) \o <<Gatsu>> \o Plain(g.d) \o <<Nichi>>
      [] g.form = "kanjiTime" -> Kanji(g.y, g.m, g.d) \o <<" ">> \o ClockTime
      [] OTHER -> <<>>

DateForms == {"iso", "isoTime", "isoT", "isoShort", "slash", "kanji", "kanjiShort", "kanjiTime"}
DateYears == {2024, 2025}
DateMonths == {1, 2, 11, 12, 13}
DateDays == {1, 29, 30, 31, 32}

\* the items under study: the date is written in one field, the fields before
\* it are absent, and the field after it may hold another date
GivenDates ==
    {NoGiven} \cup
    [field : DateFields, form : DateForms, y : DateYears, m : DateMonths,
     d : DateDays, decoy : BOOLEAN]

ItemOf(g) ==
    [f \in DateFields |->
        IF f = g.field THEN WrittenAs(g)
        ELSE IF g.decoy /\ f = g.field + 1 THEN Iso(2020, 6, 15)
        ELSE <<>>]

InitDateOnly ==
    /\ InitArchive(0, 0, 0)
    /\ InitRelay([s \in Services |-> <<>>])
    /\ \E g \in GivenDates :
          /\ given = g
          /\ item = ItemOf(g)
    /\ dateKey = NoKey
    /\ dpc = "input"
    /\ BookOff

Has(text, c) == \E k \in 1..Len(text) : text[k] = c

\* faulty variant: the time is not cut off
Split0_Whole(text) == text

\* text.split(' ')[0]
Split0(text) ==
    IF Has(text, " ")
    THEN SubSeq(text, 1, (CHOOSE k \in 1..Len(text) :
                             text[k] = " " /\ \A j \in 1..(k - 1) : text[j] # " ") - 1)
    ELSE text

UnknownDate == <<"u", "n", "k", "n", "o", "w", "n", "_", "d", "a", "t", "e">>

\* lines 464-475: the first field that is present
DisplayDate(it) ==
    IF it[1] # <<>> THEN it[1]
    ELSE IF it[2] # <<>> THEN it[2]
    ELSE IF it[3] # <<>> THEN Split0(it[3])
    ELSE IF it[4] # <<>> THEN Split0(it[4])
    ELSE IF it[5] # <<>> THEN Split0(it[5])
    ELSE UnknownDate

Leap(y) == (y % 4 = 0 /\ y % 100 # 0) \/ y % 400 = 0
DaysIn(y, m) ==
    IF m = 2 THEN (IF Leap(y) THEN 29 ELSE 28)
    ELSE IF m \in {4, 6, 9, 11} THEN 30 ELSE 31

At(text, k) == IF k >= 1 /\ k <= Len(text) THEN text[k] ELSE ""
Two(text, k) == 10 * DigitOf(At(text, k)) + DigitOf(At(text, k + 1))
BothDigits(text, k) == IsDigit(At(text, k)) /\ IsDigit(At(text, k + 1))

\* %m is 1[0-2]|0[1-9]|[1-9]: the number of characters it takes at k (0: no match)
MonthLen(text, k) ==
    IF BothDigits(text, k) /\ Two(text, k) \in 1..12 THEN 2
    ELSE IF IsDigit(At(text, k)) /\ At(text, k) # "0" THEN 1
    ELSE 0

\* %d is 3[01]|[12]\d|0[1-9]|[1-9]| [1-9]
DayLen(text, k) ==
    IF BothDigits(text, k) /\ Two(text, k) \in 1..31 THEN 2
    ELSE IF IsDigit(At(text, k)) /\ At(text, k) # "0" THEN 1
    ELSE IF At(text, k) = " " /\ IsDigit(At(text, k + 1)) /\ At(text, k + 1) # "0" THEN 2
    ELSE 0

NumberAt(text, k, len) ==
    IF len = 1 THEN DigitOf(At(text, k))
    ELSE IF At(text, k) = " " THEN DigitOf(At(text, k + 1))
    ELSE Two(text, k)

\* datetime.strptime(text, "%Y" sep1 "%m" sep2 "%d" tail): the date, or a
\* ValueError when the text does not match, when characters are left over or
\* when the day is not in the calendar
Strptime(text, sep1, sep2, tail) ==
    LET yOk == \A k \in 1..4 : IsDigit(At(text, k))
        mAt == 6
        mLen == MonthLen(text, mAt)
        dAt == mAt + mLen + 1
        dLen == DayLen(text, dAt)
        end == dAt + dLen + Len(tail) - 1
        matches ==
            /\ yOk /\ At(text, 5) = sep1
            /\ mLen > 0 /\ At(text, mAt + mLen) = sep2
            /\ dLen > 0
            /\ \A j \in 1..Len(tail) : At(text, dAt + dLen + j - 1) = tail[j]
            /\ Len(text) = end
        y == 1000 * DigitOf(text[1]) + 100 * DigitOf(text[2])
             + 10 * DigitOf(text[3]) + DigitOf(text[4])
        m == NumberAt(text, mAt, mLen)
        d == NumberAt(text, dAt, dLen)
    IN  IF matches /\ y >= 1 /\ d <= DaysIn(y, m)
        THEN [known |-> TRUE, year |-> y, month |-> m]
        ELSE NoKey

\* lines 478-489
DateKeyOf(it) ==
    LET display_date == DisplayDate(it)
    IN  IF Has(display_date, Nen)
        THEN Strptime(display_date, Nen, Gatsu, <<Nichi>>)
        ELSE Strptime(Split0(display_date), "-", "-", <<>>)

\* lines 463-489 for the item under study
DeriveDateKey ==
    /\ dpc = "input"
    /\ dateKey' = DateKeyOf(item)
    /\ dpc' = "keyed"
    /\ UNCHANGED <<item, given>>
    /\ UNCHANGED archiveVars
    /\ UNCHANGED scanHist
    /\ UNCHANGED relayVars
    /\ UNCHANGED bookVars

NextDate == DeriveDateKey

SpecDate == InitDateOnly /\ [][NextDate]_vars

(***************************************************************************)
(* The contact-book windows (process_contact_book, lines 262-302 and       *)
(* 392-394).  Dates are counted in days from 2019-01-01, the first day a   *)
(* full scan asks for.                                                     *)
(***************************************************************************)
FullScanStart == <<2019, 1, 1>>
YearLen(y) == IF Leap(y) THEN 366 ELSE 365

RECURSIVE DaysBeforeYear(_)
DaysBeforeYear(y) ==
    IF y <= FullScanStart[1] THEN 0 ELSE DaysBeforeYear(y - 1) + YearLen(y - 1)

RECURSIVE DaysBeforeMonth(_, _)
DaysBeforeMonth(y, m) ==
    IF m <= 1 THEN 0 ELSE DaysBeforeMonth(y, m - 1) + DaysIn(y, m - 1)

\* date.toordinal(), counted from FullScanStart
ToOrdinal(t) == DaysBeforeYear(t[1]) + DaysBeforeMonth(t[1], t[2]) + t[3]

RECURSIVE InYear(_, _, _)
InYear(n, y, m) ==
    IF n <= DaysIn(y, m) THEN <<y, m, n>> ELSE InYear(n - DaysIn(y, m), y, m + 1)

RECURSIVE FromYear(_, _)
FromYear(n, y) ==
    IF n <= YearLen(y) THEN InYear(n, y, 1) ELSE FromYear(n - YearLen(y), y + 1)

\* date.fromordinal()
FromOrdinal(n) == FromYear(n, FullScanStart[1])

\* t + datetime.timedelta(days=k)
PlusDays(t, k) == FromOrdinal(ToOrdinal(t) + k)
\* t.replace(day=d)
ReplaceDay(t, d) == <<t[1], t[2], d>>
\* a <= b on dates
DateLE(a, b) ==
    \/ a[1] < b[1]
    \/ a[1] = b[1] /\ a[2] < b[2]
    \/ a[1] = b[1] /\ a[2] = b[2] /\ a[3] <= b[3]

\* every date from a to b
DatesFromTo(a, b) == {FromOrdinal(n) : n \in ToOrdinal(a)..ToOrdinal(b)}

\* the days on which the program is run, and the dates given as options
Todays == {<<2024, 3, 1>>, <<2024, 3, 31>>}
SinceDates == DatesFromTo(<<2023, 12, 28>>, <<2024, 3, 2>>)
UntilDates == DatesFromTo(<<2024, 1, 25>>, <<2024, 3, 5>>)

BookArgChoices ==
    [full_scan : {FALSE}, since : {NoDate} \cup SinceDates, until : {NoDate} \cup UntilDates]
    \cup [full_scan : {TRUE}, since : {NoDate, <<2023, 12, 28>>, <<2024, 2, 29>>},
          until : {NoDate, <<2024, 1, 31>>, <<2024, 3, 5>>}]

InitBookOnly ==
    /\ InitArchive(0, 0, 0)
    /\ InitRelay([s \in Services |-> <<>>])
    /\ DateOff
    /\ today \in Todays
    /\ bookArgs \in BookArgChoices
    /\ start_date = NoDate /\ end_date = NoDate /\ current_start = NoDate
    /\ queried = <<>>
    /\ bpc = "args"

\* lines 263-288: the target period and the first window's first day
BookPeriod ==
    /\ bpc = "args"
    /\ LET default_start == IF bookArgs.full_scan THEN FullScanStart
                            ELSE PlusDays(today, 0 - 60)
           s == IF bookArgs.since # NoDate THEN bookArgs.since ELSE default_start
           e == IF bookArgs.until # NoDate THEN bookArgs.until ELSE today
       IN  /\ start_date' = s
           /\ end_date' = e
           /\ current_start' = ReplaceDay(s, 1)
    /\ bpc' = "loop"
    /\ UNCHANGED <<today, bookArgs, queried>>
    /\ UNCHANGED archiveVars
    /\ UNCHANGED scanHist
    /\ UNCHANGED relayVars
    /\ UNCHANGED dateVars

\* lines 292-293: the last day of the month of t
MonthEnd(t) ==
    LET next_month == PlusDays(ReplaceDay(t, 28), 4)
    IN  PlusDays(next_month, 0 - next_month[3])

\* line 393: the first day of the month after t
NextMonthStart(t) == ReplaceDay(PlusDays(ReplaceDay(t, 28), 4), 1)

\* lines 290-394: one window, asked of both contact-book services
BookWindow ==
    /\ bpc = "loop"
    /\ DateLE(current_start, end_date)
    /\ LET month_end == MonthEnd(current_start)
           current_end == IF ~DateLE(month_end, end_date) THEN end_date ELSE month_end
       IN  queried' = Append(queried, <<current_start, current_end>>)
    /\ current_start' = NextMonthStart(current_start)
    /\ UNCHANGED <<today, bookArgs, start_date, end_date, bpc>>
    /\ UNCHANGED archiveVars
    /\ UNCHANGED scanHist
    /\ UNCHANGED relayVars
    /\ UNCHANGED dateVars

\* line 290: the loop ends
BookEnd ==
    /\ bpc = "loop"
    /\ ~DateLE(current_start, end_date)
    /\ bpc' = "done"
    /\ UNCHANGED <<today, bookArgs, start_date, end_date, current_start, queried>>
    /\ UNCHANGED archiveVars
    /\ UNCHANGED scanHist
    /\ UNCHANGED relayVars
    /\ UNCHANGED dateVars

NextBook == BookPeriod \/ BookWindow \/ BookEnd

SpecBook == InitBookOnly /\ [][NextBook]_vars

\* the loop is not held up for ever: each request returns (lines 155-165, 179-189)
SpecBookFair == SpecBook /\ WF_vars(NextBook)

\* the steps of a started process, with the vendor answering every page
\* request as asked
Steps ==
    \/ ContactItem \/ ContactMkdir \/ ContactInfo \/ ContactDone
    \/ GetTimelinePage
    \/ ItemBegin \/ Mkdir \/ WriteInfo \/ DownloadFile \/ TouchDone \/ EndPage
    \/ NextService \/ Finish \/ Exit

Program == (\E a \in Modes : Start(a)) \/ Steps

Publishing == \E s \in Services : NewRecord(s)

Faults == GetTimelinePageFails \/ GetTimelinePageRepeats

Next == Program \/ Publishing \/ NetChange \/ Faults \/ Interrupt

\* every behaviour: page fetches may fail or repeat, download outcomes may
\* change from run to run, the process may be killed
Spec == Init /\ [][Next]_vars

\* runs that are left alone: no failed page fetch, no kill, and a download
\* that failed fails again
NextHonest == Program \/ Publishing

SpecHonest == InitHonest /\ [][NextHonest]_vars

\* one run, in any mode, over a timeline longer than the page ceiling allows
InitCeiling == InitWith(MAX_PAGES * PageSize + 1, MaxRuns - 1, MaxNew)

NextCeiling == Program \/ Faults

SpecCeiling == InitCeiling /\ [][NextCeiling]_vars

\* the routine schedule: two runs without options, over a small timeline, over
\* one that just fits under the page ceiling and over one that does not
InitRoutine ==
    \/ InitWith(InitialRecords, MaxRuns - 2, 0)
    \/ InitWith(MAX_PAGES * PageSize, MaxRuns - 2, 0)
    \/ InitWith(MAX_PAGES * PageSize + 1, MaxRuns - 2, 0)

NextRoutine == Start(NoArgs) \/ Steps \/ Publishing

SpecRoutine == InitRoutine /\ [][NextRoutine]_vars

\* the routine schedule in a hostile world: page fetches fail or repeat and
\* the process may be killed
NextCron == NextRoutine \/ Faults \/ Interrupt

SpecCron == InitRoutine /\ [][NextCron]_vars

\* runs in every mode against an honest vendor, killed at any step
NextCrash == NextHonest \/ Interrupt

\* two runs whatever the number of runs explored elsewhere
InitCrash == InitWith(InitialRecords, MaxRuns - 2, 0)

SpecCrash == InitCrash /\ [][NextCrash]_vars

\* runs in every mode against an honest vendor whose records can make the
\* handling of an item raise
NextErrors == NextHonest \/ Raises

SpecErrors == InitCrash /\ [][NextErrors]_vars

\* two runs in every mode against a vendor whose page fetches fail or repeat
NextScan == Program \/ Faults

SpecScan == InitCrash /\ [][NextScan]_vars

(***************************************************************************)
(* Properties.                                                             *)
(***************************************************************************)
ListedIds(s) == {Id(s, n) : n \in 1..count[s]}
WalkOver == pc = "exited"
\* the last walk is over and no other has begun
WalkEnded == pc \in {"exited", "finished"}
Incremental == ~args.full_scan /\ ~args.force

\* the listed records of the walk's facility that had no done marker when the
\* run started, and those that had one
NewOnes == {r \in ListedIds(svc) : r \notin startDones}
OldOnes == ListedIds(svc) \cap startDones
\* newest-first, every record without a marker comes before every marked one
NewThenDone == \A a \in NewOnes : \A b \in OldOnes : SeqNo(a) > SeqNo(b)
\* the page holding the first marked record
FirstDonePage == (Cardinality(NewOnes) \div PageSize) + 1

\* the walk persisted exactly the new records and asked for no page after the
\* one with the first marked record
ResumeResult ==
    /\ written \cap ListedIds(svc) = NewOnes
    /\ NewOnes \subseteq (dirs \cap infos \cap dones)
    /\ OldOnes # {} => requests = FirstDonePage

\* C1 as stated: an incremental walk over M records without a done marker
\* followed by N marked ones persists exactly the M new ones and requests no
\* page after the one holding the first marked record.
C1_ResumeAnyLength ==
    (WalkOver /\ Incremental /\ clean /\ NewThenDone) => ResumeResult

\* C1 amended: the same, provided the M new records lie within the first
\* MAX_PAGES pages.
C1_Resume ==
    (/\ WalkOver /\ Incremental /\ clean /\ NewThenDone
     /\ Cardinality(NewOnes) <= MAX_PAGES * PageSize) => ResumeResult

\* an incremental walk that found two new records before three archived ones
C1_Witness ==
    /\ WalkOver /\ Incremental /\ clean /\ NewThenDone
    /\ exit = "resume"
    /\ Cardinality(NewOnes) = 2 /\ Cardinality(OldOnes) >= 1
    /\ written = NewOnes

\* C2: between incremental runs, a record marked done implies that every
\* older record of its facility's listing is marked done too.
C2_OlderAlsoDone ==
    pc = "idle" =>
        \A r \in dones : r > 0 =>
            \A n \in 1..SeqNo(r) : Id(ServiceOf(r), n) \in dones

\* C3: an entry left with a directory but no done marker by a killed run has
\* its done marker once the next run has completed, if it is still listed.
C3_PartialRetried ==
    (pc = "finished" /\ clean) =>
        \A r \in startDirs \ startDones : Listed(r) => r \in dones

AllAttempted(r) == \A k \in 1..NumAtt(r) : <<r, k>> \in everAttempted

\* C4 as stated: an entry with the done marker has info.json and every one of
\* its attachment downloads has been attempted.
C4_DoneMeansAllAttempted ==
    \A r \in dones : r \in infos /\ AllAttempted(r)

\* C4 amended: an entry with the done marker has info.json, and every one of
\* its attachment downloads has been attempted unless a run with --no-assets
\* wrote the marker.
C4_DoneLast ==
    \A r \in dones : r \in dirs /\ r \in infos /\ (r \in bareDones \/ AllAttempted(r))

\* after a kill: a complete entry with attachments beside an incomplete one
C4_Witness ==
    /\ exit = "killed"
    /\ \E r \in dones : NumAtt(r) > 0 /\ r \notin bareDones /\ AllAttempted(r)
    /\ dirs \ dones # {}

\* C5 as stated: a walk that got the same page twice in a row ends, and ends
\* by the loop-detection branch.
C5_LoopBranchAlways ==
    (dupAt > 0 /\ WalkOver) => (requests = dupAt /\ exit = "loop")

\* C5 amended: after the repeated page no further page is requested; the walk
\* ends by the loop-detection branch in full-scan or force mode, and by the
\* resume policy (without the warning) otherwise.
C5_LoopEnds ==
    dupAt > 0 =>
        /\ requests = dupAt
        /\ WalkOver => exit = (IF Incremental THEN "resume" ELSE "loop")

C5_Witness ==
    dupAt > 0 /\ WalkOver /\ exit = "loop" /\ args.full_scan /\ requests = dupAt

\* C6: a walk requests at most MAX_PAGES pages, and a run in which a walk hit
\* the ceiling still walks every facility.
C6_PageCeiling ==
    /\ requests <= MAX_PAGES
    /\ Len(exits) <= NumServices
    /\ pc = "finished" => Len(exits) = NumServices

C6_Witness ==
    /\ pc = "finished"
    /\ exits = <<"ceiling", "nodata">>
    /\ Cardinality(written \cap ListedIds(1)) = MAX_PAGES * PageSize

\* this run repeats the one before: same options, same vendor data and
\* download outcomes, both complete, no failed page fetch, force off
Repeat ==
    /\ pc = "finished" /\ clean
    /\ last.valid /\ ~envChanged /\ last.args = args
    /\ ~args.force

\* C7 as stated: the repeated run leaves the tree as it was and sends no
\* attachment request, in incremental and in full-scan mode.
C7_NoRequestAtAll ==
    Repeat => (Tree = last.tree /\ requested = {})

\* C7 amended: the repeated run leaves the tree as it was; it sends no
\* attachment request in incremental mode, and in full-scan mode only for
\* attachments whose file the first run left missing or empty.
C7_Idempotent ==
    Repeat =>
        /\ Tree = last.tree
        /\ ~args.full_scan => requested = {}
        /\ \A key \in requested :
               key \notin DOMAIN last.tree[4] \/ last.tree[4][key] = 0

\* a repeated full scan that went through attachments and skipped them
C7_Witness ==
    /\ Repeat /\ args.full_scan /\ ~args.no_assets
    /\ attempted # {} /\ requested = {}
    /\ Tree = last.tree

InProgress(r) == pc \in {"assets", "done"} /\ cur = r

\* C8: a record with a failed attachment download keeps its info.json, and
\* unless the walk is still at it, it has its done marker and every one of
\* its attachments was attempted in this run.
C8_BestEffort ==
    \A key \in failed :
        /\ key[1] \in infos
        /\ \/ InProgress(key[1])
           \/ /\ key[1] \in dones
              /\ \A k \in 1..NumAtt(key[1]) : <<key[1], k>> \in attempted

\* the first of two attachments failed, the record is complete and the walk
\* is at the next record
C8_Witness ==
    /\ pc = "mkdir"
    /\ \E key \in failed :
          /\ key[2] = 1 /\ NumAtt(key[1]) >= 2
          /\ key[1] \in dones \ startDones
          /\ <<key[1], 2>> \in attempted
          /\ cur # key[1]

\* C9 as stated: with full-scan off, meeting a record marked done ends the
\* walk, whatever the other options.
C9_StopsUnlessFullScan ==
    (metDone /\ ~args.full_scan) => (WalkEnded /\ exit = "resume")

\* C9 amended: with full-scan off and force off, meeting a record marked done
\* ends the walk at once.
C9_ResumePolicy ==
    (metDone /\ Incremental) => (WalkEnded /\ exit = "resume")

\* an incremental walk that archived new records and then met an old one
C9_Witness ==
    /\ metDone /\ Incremental /\ WalkOver /\ exit = "resume"
    /\ written # {} /\ svc = 1

\* the ids this process_timeline call made a chat call for
PostedIds == {posts[k].id : k \in 1..Len(posts)}

\* C10: a record whose id is in an (ID: n) token of the text or of a file's
\* initial comment of a scanned message causes no chat call.
C10_NoRepost == PostedIds \cap scannedTokens = {}

\* the records the loop of this process_timeline call has been through
Passed == {timeline[Len(timeline) - k + 1] : k \in 1..(pos - 1)}
HandledIds == {handled[k] : k \in 1..Len(handled)}

\* C11: a record relayed before whose id is in no scanned message is handled
\* again when the vendor still returns it, and posted again when its calls
\* succeed.
C11_WindowBoundary ==
    rpc = "items" =>
        \A i \in Passed :
            (i \in relayedAtScan /\ i \notin scannedTokens) =>
                /\ i \in HandledIds
                /\ relayClean => i \in PostedIds

\* the history was read and held other ids, but not the one of a record
\* relayed before, which is posted once more
C11_Witness ==
    /\ rpc = "items" /\ seenAtScan # {}
    /\ Len(channel) >= HISTORY_LIMIT
    /\ \E i \in Passed :
          i \in relayedAtScan /\ i \notin scannedTokens /\ i \in PostedIds

\* C12: the id embedded in the message of every relayed record is what
\* fetch_seen_ids_from_slack recovers from that message.
C12_RoundTrip ==
    \A k \in 1..Len(posts) :
        posts[k].what \in {"text", "file"} =>
            \A where \in {"text", "comment"} :
                posts[k].id \in SeenIn(MessageOf(posts[k], where))

CountOf(i, what) ==
    Cardinality({k \in 1..Len(posts) : posts[k].id = i /\ posts[k].what = what})

\* the call is over for a timeline of activity 1 (MaxPhotos photos),
\* activity 2 (no photo) and announcement 3 (a PDF of PdfPages pages), all
\* new, with every download and chat call succeeding
AllNewAllFine ==
    /\ rpc = "items" /\ pos > Len(timeline)
    /\ timeline = <<3, 2, 1>>
    /\ seenAtScan \cap {1, 2, 3} = {}
    /\ relayClean

PosIn(i) == CHOOSE k \in 1..Len(timeline) : timeline[k] = i

\* C18: the posts of a call follow the reverse of the vendor's order: of two
\* posts, the later one is never of an older record.
C18_Chronological ==
    rpc = "items" =>
        \A k \in 1..Len(posts) : \A l \in 1..Len(posts) :
            k < l => PosIn(posts[k].id) >= PosIn(posts[l].id)

C18_Witness ==
    /\ rpc = "items"
    /\ \E k \in 1..Len(posts) : \E l \in 1..Len(posts) :
          k < l /\ PosIn(posts[k].id) > PosIn(posts[l].id)

\* C19: a photo upload comes after the text post of its record, photos follow
\* their listed order, and a photo without caption carries ".".
C19_ActivityOrder ==
    \A k \in 1..Len(posts) :
        posts[k].what = "photo" =>
            /\ \E j \in 1..(k - 1) : posts[j].id = posts[k].id /\ posts[j].what = "text"
            /\ \A l \in 1..Len(posts) :
                  (l > k /\ posts[l].id = posts[k].id) =>
                      (posts[l].what = "photo" /\ posts[l].n > posts[k].n)
            /\ posts[k].comment =
                  (IF Caption(posts[k].id, posts[k].n) = "" THEN "."
                   ELSE Caption(posts[k].id, posts[k].n))

C19_Witness ==
    \E k \in 1..Len(posts) :
        /\ posts[k].what = "photo" /\ posts[k].n = 2 /\ posts[k].comment = "."
        /\ posts[k - 1].what = "photo" /\ posts[k - 1].n = 1
        /\ posts[k - 1].comment = "caption"

\* C14: an error raised while a record is handled is confined to it: the
\* older records of the facility's listing are still archived by the run.
C14_ErrorConfined ==
    exit = "raised" =>
        \A r \in ListedIds(ServiceOf(raisedAt)) :
            SeqNo(r) < SeqNo(raisedAt) => r \in dones

\* C15: after a failed page fetch the walk is over as if the data had ended:
\* the failed request is the walk's last, control is back in main's loop, and
\* the archive tree is as it was when the fetch failed.
C15_FailedFetch ==
    failedAt > 0 =>
        /\ WalkEnded /\ exit = "nodata"
        /\ requests = failedAt
        /\ Tree = treeAtFail
        /\ Len(exits) = svc

\* the second page of the first facility failed after the first was archived
C15_Witness ==
    /\ failedAt = 2 /\ svc = 1 /\ WalkOver
    /\ written # {} /\ Tree = treeAtFail
    /\ Cardinality(dones) < count[1]

FileNow(key) == IF key \in DOMAIN files THEN files[key] ELSE 0 - 1

\* C20: right after a call of download_file: with force off a non-empty
\* target is left alone without a request; a missing or empty target is
\* requested; with force on the file is always requested; a 200 response
\* (re)writes the file and any other outcome leaves it as it was.
C20_ForceSemantics ==
    dl.valid =>
        /\ (~dl.force /\ dl.had > 0) => (~dl.req /\ FileNow(dl.key) = dl.had)
        /\ (~dl.force /\ dl.had <= 0) => dl.req
        /\ dl.force => dl.req
        /\ dl.o = "ok" => FileNow(dl.key) = 1
        /\ dl.o = "empty" => FileNow(dl.key) = 0
        /\ dl.o = "fail" => FileNow(dl.key) = dl.had

\* an empty file left by an earlier run is requested again with force off
C20_Witness ==
    dl.valid /\ ~dl.force /\ dl.had = 0 /\ dl.req /\ runs = 2

\* the date is in the calendar
ValidDate(g) == g.m \in 1..12 /\ g.d \in 1..DaysIn(g.y, g.m)
\* YYYY-MM-DD, the same followed by a blank and a time, and the forms with
\* the markers for year, month and day
ClaimedForms == {"iso", "isoTime", "kanji", "kanjiShort"}

BookDone == bpc = "done" /\ DateLE(start_date, end_date)

\* C21: for start_date <= end_date the windows asked of the vendor begin on
\* start_date and end on end_date, so that no day before start_date is
\* requested.
C21_CoversExactly ==
    BookDone =>
        /\ Len(queried) > 0
        /\ queried[1][1] = start_date
        /\ queried[Len(queried)][2] = end_date

\* the records a sequence holds
RangeOf(q) == {q[k] : k \in 1..Len(q)}

\* C22: in a full scan no walk stops at an archived record; the records of
\* the received pages are handled one after the other, all of them by the
\* time the walk ends, and the walk ends only on an empty or failed page, on
\* the loop detection or on the page ceiling; an existing info.json is
\* written again only under force.
C22_FullScan ==
    (args.full_scan /\ pc \notin {"idle", "finished"}) =>
        /\ "resume" \notin RangeOf(exits)
        /\ Len(processed) <= Len(received)
        /\ processed = SubSeq(received, 1, Len(processed))
        /\ WalkOver =>
              /\ exit \in {"nodata", "loop", "ceiling"}
              /\ processed = received
              /\ RangeOf(received) \subseteq dones
        /\ rewritten # {} => args.force

\* a full scan without force has walked the whole timeline of facility 1,
\* archived records included, and wrote no existing info.json again
C22_Witness ==
    /\ args.full_scan /\ ~args.force
    /\ WalkOver /\ svc = 1 /\ metDone
    /\ exit = "nodata" /\ failedAt = 0
    /\ RangeOf(processed) = ListedIds(1)
    /\ RangeOf(processed) \cap startDones # {}
    /\ rewritten = {}

\* C23: an activity whose text was posted while a photo was left out, and
\* whose text message is among the messages the history read returned,
\* causes no chat call in that process_timeline call: its missing photos are
\* not uploaded.
C23_NeverCompleted ==
    rpc = "items" => ownAtScan \cap PostedIds = {}

====
